---- MODULE Spec2Model ----
(***************************************************************************)
(* Interference Analysis Engine of the NYC Mesh frequency tool            *)
(* (interference_detection.py): the device registry, the pairwise         *)
(* overlap analysis, the scoring function, the recommendation text, the   *)
(* clustering step and the report assembler, as a state machine over one  *)
(* InterferenceDetector object and the database it was built from.        *)
(*                                                                         *)
(* Numbers.  Frequencies, channel widths and transmit powers are integers *)
(* (MHz, MHz, dBm); the modelled channel widths are even, so that          *)
(* channel_width / 2 is exact.  Scores and factors are Python floats in    *)
(* the program; here they are fixed-point integers in thousandths          *)
(* (75000 is 75.0), each product rescaled as it is formed.                 *)
(*                                                                         *)
(* Optional values.  A Python Optional is a sequence of length 0 (None)   *)
(* or 1 (the value): None == <<>>, Some(5180) == <<5180>>.                 *)
(***************************************************************************)
EXTENDS Integers, Sequences, FiniteSets, TLC

\* ---------------------------------------------------------------- bounds
\* Largest number of device records in the database.
MaxDevices == 3
\* Largest number of Device objects in the registry: load_devices is not
\* called again when its appends would exceed it.
MaxRegistry == 6

\* ------------------------------------------------------------- optionals
None == <<>>
Some(v) == <<v>>
IsNone(x) == x = <<>>
NotNone(x) == x # <<>>
Val(x) == x[1]

\* Fixed-point unit: thousandths.
Milli == 1000

\* A function on 1..n as the sequence of its values.
AsSeq(f) == f \o <<>>

Min2(a, b) == IF a <= b THEN a ELSE b
Max2(a, b) == IF a >= b THEN a ELSE b
Abs(a) == IF a < 0 THEN 0 - a ELSE a

\* ------------------------------------------------------------ the inputs
\* Site records {id, latitude, longitude}.  Coordinates are in micro-degrees.
\* S1 and S4 are two different sites with identical coordinates; S5 has a
\* latitude outside [-90, 90] degrees; no site record has id "S9".
SiteRecords ==
    << [id |-> "S1", latitude |-> Some(40700000), longitude |-> Some(0 - 74000000)],
       [id |-> "S2", latitude |-> Some(40700450), longitude |-> Some(0 - 74000000)],
       [id |-> "S3", latitude |-> Some(40709005), longitude |-> Some(0 - 74000000)],
       [id |-> "S4", latitude |-> Some(40700000), longitude |-> Some(0 - 74000000)],
       [id |-> "S5", latitude |-> Some(91000000), longitude |-> Some(0 - 74000000)],
       [id |-> "S6", latitude |-> None, longitude |-> None] >>

\* A device name is the sequence of its words, e.g. "AP-North" is <<"AP", "North">>.
\* A device record without a name key has name None.
\* Device profiles: what a device record and its radio record carry.
\* [name, siteId, frequency, channelWidth, txPower]; hasRadio = FALSE means no
\* radio record exists for the device.
Profile(name, site, hasRadio, f, cw, tx) ==
    [name |-> name, siteId |-> site, hasRadio |-> hasRadio,
     frequency |-> f, channelWidth |-> cw, txPower |-> tx]

Profiles ==
    { Profile(<<"AP", "North">>, Some("S1"), TRUE, Some(5180), Some(20), None),
      Profile(<<"ap">>, Some("S2"), TRUE, Some(5185), Some(20), None),
      Profile(<<"Sector", "South">>, Some("S1"), TRUE, Some(5185), Some(20), Some(20)),
      Profile(<<"ap", "west">>, Some("S3"), TRUE, Some(5200), Some(20), Some(20)),
      Profile(<<"relay">>, Some("S4"), TRUE, Some(5190), Some(20), Some(0 - 30)),
      Profile(<<"ap">>, Some("S5"), TRUE, Some(5200), Some(40), Some(0 - 30)),
      Profile(<<"bridge">>, None, TRUE, Some(5500), Some(20), None),
      Profile(<<"ptp", "east">>, Some("S9"), TRUE, Some(5180), Some(0 - 20), Some(10)),
      Profile(<<"ap", "Southeast">>, Some("S2"), FALSE, None, None, None),
      Profile(<<"cpe">>, Some("S3"), TRUE, Some(5180), None, Some(10)),
      Profile(<<"omni">>, Some("S6"), TRUE, Some(5190), Some(0), Some(20)) }

\* The database built from a sequence of profiles: device i has id i.
DeviceRecord(i, p) ==
    [id |-> i, name |-> p.name, type |-> "airMax", model |-> "Unknown", siteId |-> p.siteId]

RadioRecord(i, p) ==
    [deviceId |-> i, frequency |-> p.frequency,
     channelWidth |-> p.channelWidth, txPower |-> p.txPower]

RECURSIVE RadioRecords(_, _)
RadioRecords(ps, i) ==
    IF i > Len(ps) THEN <<>>
    ELSE (IF ps[i].hasRadio THEN <<RadioRecord(i, ps[i])>> ELSE <<>>)
         \o RadioRecords(ps, i + 1)

Database(ps) ==
    [devices |-> AsSeq([i \in 1..Len(ps) |-> DeviceRecord(i, ps[i])]),
     sites |-> SiteRecords,
     wireless_configs |-> RadioRecords(ps, 1)]

\* The devices a later data collection brings in (a subset of Profiles).
CollectedProfiles ==
    { Profile(<<"ap">>, Some("S2"), TRUE, Some(5185), Some(20), None) }

\* store_devices and store_wireless_configs for one new device: the record
\* gets the next id, INSERT OR REPLACE adds it to the table.
store_devices(db, p) ==
    [devices |-> Append(db.devices, DeviceRecord(Len(db.devices) + 1, p)),
     sites |-> db.sites,
     wireless_configs |->
         db.wireless_configs
         \o (IF p.hasRadio THEN <<RadioRecord(Len(db.devices) + 1, p)>> ELSE <<>>)]

\* ----------------------------------------------------------------- state
VARIABLES
    database,               \* FrequencyDatabase: devices, sites, wireless_configs
    devices,                \* InterferenceDetector.devices
    interference_results,   \* InterferenceDetector.interference_results
    last_call,              \* the method called last
    raised,                 \* None, or the exception the last call raised
    returned,               \* what the last call returned (None if it raised)
    previous_run,           \* the last completed engine run: its registry, its report,
                            \* and whether a completed run on that registry preceded it
    scorer_calls            \* the direct calls of _calculate_interference_score: the
                            \* last one and the one before it, each with its outcome

vars == <<database, devices, interference_results, last_call, raised, returned, previous_run,
          scorer_calls>>

\* ------------------------------------------------------- Device Registry
\* dict lookup: the last record with the key wins (site_map / wireless_map).
RECURSIVE LookupLast(_, _, _, _)
LookupLast(recs, keyName, key, i) ==
    IF i = 0 THEN None
    ELSE IF recs[i][keyName] = key THEN Some(recs[i])
    ELSE LookupLast(recs, keyName, key, i - 1)

site_map(sites, site_id) ==
    IF IsNone(site_id) THEN None
    ELSE LookupLast(sites, "id", Val(site_id), Len(sites))

wireless_map(configs, device_id) ==
    LookupLast(configs, "deviceId", device_id, Len(configs))

\* str.lower() on one word of a name.
Lower(w) ==
    CASE w = "North" -> "north"
      [] w = "South" -> "south"
      [] w = "AP" -> "ap"
      [] w = "Sector" -> "sector"
      [] w = "Southeast" -> "southeast"
      [] OTHER -> w

\* The direction words that are substrings of a lower-case word.
DirectionWordsIn(w) ==
    CASE w = "southeast" -> {"south", "east"}
      [] w \in {"north", "east", "south", "west"} -> {w}
      [] OTHER -> {}

\* 'north' in name_lower
InName(word, name) ==
    NotNone(name) /\ \E k \in 1..Len(name) : word \in DirectionWordsIn(Lower(name[k]))

\* InferDirection testing south before east.
InferDirection_SouthFirst(name) ==
    IF InName("north", name) THEN Some("north")
    ELSE IF InName("south", name) THEN Some("south")
    ELSE IF InName("east", name) THEN Some("east")
    ELSE IF InName("west", name) THEN Some("west")
    ELSE None

InferDirection(name) ==
    IF InName("north", name) THEN Some("north")
    ELSE IF InName("east", name) THEN Some("east")
    ELSE IF InName("south", name) THEN Some("south")
    ELSE IF InName("west", name) THEN Some("west")
    ELSE None

BeamWidthDegrees == 90

\* HasRange by truth value: `if frequency and channel_width`.
HasRange_Truthy(frequency, channel_width) ==
    /\ NotNone(frequency) /\ Val(frequency) # 0
    /\ NotNone(channel_width) /\ Val(channel_width) # 0

\* frequency is not None and channel_width is not None
HasRange(frequency, channel_width) == NotNone(frequency) /\ NotNone(channel_width)

MakeDevice(db, db_device) ==
    LET site_id == db_device.siteId
        site == site_map(db.sites, site_id)
        wireless_config == wireless_map(db.wireless_configs, db_device.id)
        frequency == IF IsNone(wireless_config) THEN None ELSE Val(wireless_config).frequency
        channel_width == IF IsNone(wireless_config) THEN None ELSE Val(wireless_config).channelWidth
        tx_power == IF IsNone(wireless_config) THEN None ELSE Val(wireless_config).txPower
        hasRange == HasRange(frequency, channel_width)
        direction == InferDirection(db_device.name)
    IN  [id |-> db_device.id,
         name |-> IF IsNone(db_device.name) THEN <<"Unknown">> ELSE db_device.name,
         type |-> db_device.type,
         model |-> db_device.model,
         site_id |-> site_id,
         latitude |-> IF IsNone(site) THEN None ELSE Val(site).latitude,
         longitude |-> IF IsNone(site) THEN None ELSE Val(site).longitude,
         frequency |-> frequency,
         channel_width |-> channel_width,
         tx_power |-> tx_power,
         freq_min |-> IF hasRange THEN Some(Val(frequency) - (Val(channel_width) \div 2)) ELSE None,
         freq_max |-> IF hasRange THEN Some(Val(frequency) + (Val(channel_width) \div 2)) ELSE None,
         direction |-> direction,
         beam_width |-> IF NotNone(direction) THEN Some(BeamWidthDegrees) ELSE None]

\* The Device objects load_devices appends, in record order.
RECURSIVE BuildDevices(_, _)
BuildDevices(db, i) ==
    IF i > Len(db.devices) THEN <<>>
    ELSE <<MakeDevice(db, db.devices[i])>> \o BuildDevices(db, i + 1)

load_devices(db, registry) == registry \o BuildDevices(db, 1)

\* ------------------------------------------------------ geopy (library)
\* geopy rejects a latitude outside [-90, 90] degrees with a ValueError.
ValidPoint(lat, lon) == Abs(lat) <= 90000000

\* geopy.distance.distance(p, q).meters for two valid points, to the metre.
\* The modelled sites lie on one meridian: about 111 m per 1000 micro-degrees.
GeodesicMeters(lat1, lon1, lat2, lon2) == (Abs(lat1 - lat2) * 111 + 500) \div 1000

\* The distance of a pair, as detect_frequency_interference computes it:
\* None when a coordinate is absent or geopy raises (the exception is caught).
PairDistance(device1, device2) ==
    IF NotNone(device1.latitude) /\ NotNone(device1.longitude)
       /\ NotNone(device2.latitude) /\ NotNone(device2.longitude)
    THEN IF ValidPoint(Val(device1.latitude), Val(device1.longitude))
            /\ ValidPoint(Val(device2.latitude), Val(device2.longitude))
         THEN Some(GeodesicMeters(Val(device1.latitude), Val(device1.longitude),
                                  Val(device2.latitude), Val(device2.longitude)))
         ELSE None
    ELSE None

\* geopy.distance.geodesic(p, q).bearing: a geodesic distance object has no
\* attribute 'bearing', so the attribute access raises AttributeError for
\* every pair of points (None stands for the raised exception).
GeodesicBearing(lat1, lon1, lat2, lon2) == None

\* ------------------------------------------------------- spatial overlap
dir_to_bearing(direction) ==
    CASE direction = "north" -> Some(0)
      [] direction = "east" -> Some(90)
      [] direction = "south" -> Some(180)
      [] direction = "west" -> Some(270)
      [] OTHER -> None

\* abs((bearing - toward + 180) % 360 - 180)
angle_diff(bearing, toward) == Abs(((bearing - toward + 180) % 360) - 180)

\* 1 - angle / half_beam, in thousandths; half_beam is beam_width / 2.
FacingShare(angle, beam_width) == Milli - ((angle * Milli * 2) \div beam_width)

\* The body of the try block once the bearing is known.
SpatialOverlapFrom(bearing1to2, device1, device2) ==
    LET bearing2to1 == (bearing1to2 + 180) % 360
        bearing1 == dir_to_bearing(Val(device1.direction))
        bearing2 == dir_to_bearing(Val(device2.direction))
    IN  IF IsNone(bearing1) \/ IsNone(bearing2) THEN None
        ELSE LET angle_diff1 == angle_diff(Val(bearing1), bearing1to2)
                 angle_diff2 == angle_diff(Val(bearing2), bearing2to1)
                 faces1 == 2 * angle_diff1 <= Val(device1.beam_width)
                 faces2 == 2 * angle_diff2 <= Val(device2.beam_width)
                 overlap1 == FacingShare(angle_diff1, Val(device1.beam_width))
                 overlap2 == FacingShare(angle_diff2, Val(device2.beam_width))
             IN  IF faces1 /\ faces2 THEN Some((overlap1 + overlap2) \div 2)
                 ELSE IF faces1 THEN Some(overlap1 \div 2)
                 ELSE IF faces2 THEN Some(overlap2 \div 2)
                 ELSE Some(0)

_calculate_spatial_overlap(device1, device2) ==
    IF IsNone(device1.latitude) \/ IsNone(device1.longitude)
       \/ IsNone(device2.latitude) \/ IsNone(device2.longitude)
       \/ IsNone(device1.direction) \/ IsNone(device2.direction)
       \/ IsNone(device1.beam_width) \/ IsNone(device2.beam_width)
    THEN None
    ELSE LET bearing1to2 == GeodesicBearing(Val(device1.latitude), Val(device1.longitude),
                                            Val(device2.latitude), Val(device2.longitude))
         IN  IF IsNone(bearing1to2) THEN None   \* except Exception: return None
             ELSE SpatialOverlapFrom(Val(bearing1to2), device1, device2)

\* --------------------------------------------------- interference scorer
\* 0.1 + 0.9 / (1 + exp((log10(distance) - 3) * 2)) in thousandths, tabulated
\* at the distances in metres that occur between the modelled sites.
DistanceFactor(distance) ==
    CASE distance = 10 -> 984
      [] distance = 50 -> 938
      [] distance = 100 -> 893
      [] distance = 500 -> 682
      [] distance = 950 -> 560
      [] distance = 1000 -> 550
      [] distance = 2000 -> 418
      [] distance = 5000 -> 278
      [] distance = 10000 -> 207

\* math.log10(0) raises ValueError, and nothing catches it.
ScoreRaises(distance) == NotNone(distance) /\ Val(distance) <= 0

\* x or 20
OrDefault(x) == IF IsNone(x) \/ Val(x) = 0 THEN 20 ELSE Val(x)

\* FreqScore as a share of half the narrower channel.
FreqScore_PerHalfChannel(frequency_overlap, device1, device2) ==
    LET min_channel_width == Min2(OrDefault(device1.channel_width),
                                  OrDefault(device2.channel_width))
    IN  (frequency_overlap * 100 * Milli) \div (min_channel_width \div 2)

FreqScore(frequency_overlap, device1, device2) ==
    LET min_channel_width == Min2(OrDefault(device1.channel_width),
                                  OrDefault(device2.channel_width))
    IN  (frequency_overlap * 100 * Milli) \div min_channel_width

\* DistanceFactorOf with an absent distance counted as 1000 m.
DistanceFactorOf_AbsentAsFar(distance) ==
    IF NotNone(distance) THEN DistanceFactor(Val(distance)) ELSE DistanceFactor(1000)

DistanceFactorOf(distance) ==
    IF NotNone(distance) THEN DistanceFactor(Val(distance)) ELSE Milli

\* SpatialFactor falling with the overlap: 1.0 - 0.8 * overlap.
SpatialFactor_Falling(spatial_overlap) ==
    IF NotNone(spatial_overlap) THEN Milli - ((800 * Val(spatial_overlap)) \div Milli) ELSE Milli

SpatialFactor(spatial_overlap) ==
    IF NotNone(spatial_overlap) THEN 200 + ((800 * Val(spatial_overlap)) \div Milli) ELSE Milli

\* 0.5 + ((p1 + p2) / 2) / 20
TxPowerFactor(device1, device2) ==
    IF NotNone(device1.tx_power) /\ NotNone(device2.tx_power)
    THEN 500 + 25 * (Val(device1.tx_power) + Val(device2.tx_power))
    ELSE Milli

_calculate_interference_score(frequency_overlap, distance, spatial_overlap, device1, device2) ==
    LET freq_score == FreqScore(frequency_overlap, device1, device2)
        distance_factor == DistanceFactorOf(distance)
        spatial_factor == SpatialFactor(spatial_overlap)
        tx_power_factor == TxPowerFactor(device1, device2)
    IN  (((((freq_score * distance_factor) \div Milli) * spatial_factor) \div Milli)
            * tx_power_factor) \div Milli

\* -------------------------------------------------- recommendation engine
\* A recommendation string is the sequence of its sentences; a sentence is
\* its fixed wording (kind) with the device names and the numbers it embeds.
Sentence(kind, names, numbers) == [kind |-> kind, names |-> names, numbers |-> numbers]

NoActionText == <<Sentence("Low interference risk. No action needed.", <<>>, <<>>)>>

potential_frequencies ==
    << 5180, 5200, 5220, 5240, 5260, 5280, 5300, 5320,
       5500, 5520, 5540, 5560, 5580, 5600, 5620, 5640, 5660, 5680, 5700,
       5745, 5765, 5785, 5805, 5825 >>

InSeq(x, seq) == \E k \in 1..Len(seq) : seq[k] = x

\* _find_alternative_frequency picking the last available frequency.
_find_alternative_frequency_LastFree(registry, device1, device2) ==
    LET used_frequencies ==
            { Val(registry[k].frequency) :
                k \in { m \in 1..Len(registry) : NotNone(registry[m].frequency) } }
        available_frequencies ==
            SelectSeq(potential_frequencies, LAMBDA f : f \notin used_frequencies)
    IN  IF available_frequencies = <<>> THEN None
        ELSE IF NotNone(device1.frequency) /\ InSeq(Val(device1.frequency), potential_frequencies)
             THEN Some(<<Val(device1.frequency),
                         available_frequencies[Len(available_frequencies)]>>)
        ELSE IF NotNone(device2.frequency) /\ InSeq(Val(device2.frequency), potential_frequencies)
             THEN Some(<<Val(device2.frequency),
                         available_frequencies[Len(available_frequencies)]>>)
        ELSE None

\* The tuple (current_frequency, alternative_frequency), or None.
_find_alternative_frequency(registry, device1, device2) ==
    LET used_frequencies ==
            { Val(registry[k].frequency) :
                k \in { m \in 1..Len(registry) : NotNone(registry[m].frequency) } }
        available_frequencies ==
            SelectSeq(potential_frequencies, LAMBDA f : f \notin used_frequencies)
    IN  IF available_frequencies = <<>> THEN None
        ELSE IF NotNone(device1.frequency) /\ InSeq(Val(device1.frequency), potential_frequencies)
             THEN Some(<<Val(device1.frequency), available_frequencies[1]>>)
        ELSE IF NotNone(device2.frequency) /\ InSeq(Val(device2.frequency), potential_frequencies)
             THEN Some(<<Val(device2.frequency), available_frequencies[1]>>)
        ELSE None

PowerThreshold == 15
PowerStep == 3
NegligibleScore == 20000
MediumAbove == 40000
HighAbove == 70000

\* SeverityLabel with the Medium band starting at the negligible-score limit.
SeverityLabel_WrongThreshold(score) ==
    IF score > HighAbove THEN "High" ELSE IF score > NegligibleScore THEN "Medium" ELSE "Low"

SeverityLabel(score) ==
    IF score > HighAbove THEN "High" ELSE IF score > MediumAbove THEN "Medium" ELSE "Low"

\* PowerSuggestion for devices above 20 dBm only.
PowerSuggestion_Above20(device) ==
    IF NotNone(device.tx_power) /\ Val(device.tx_power) > 20
    THEN <<Sentence("Reduce transmit power of {name} from {p} dBm to {q} dBm.",
                    <<device.name>>,
                    <<Val(device.tx_power), Val(device.tx_power) - PowerStep>>)>>
    ELSE <<>>

\* The power-reduction sentence for one device, if its power calls for one.
PowerSuggestion(device) ==
    IF NotNone(device.tx_power) /\ Val(device.tx_power) > PowerThreshold
    THEN <<Sentence("Reduce transmit power of {name} from {p} dBm to {q} dBm.",
                    <<device.name>>,
                    <<Val(device.tx_power), Val(device.tx_power) - PowerStep>>)>>
    ELSE <<>>

_generate_recommendation(registry, device1, device2, overlap, distance, score) ==
    IF score < NegligibleScore THEN NoActionText
    ELSE
    LET alt_freq == _find_alternative_frequency(registry, device1, device2)
        device_to_change ==
            IF device1.frequency = Some(Val(alt_freq)[1]) THEN device1 ELSE device2
        change ==
            IF NotNone(alt_freq)
            THEN <<Sentence("Change {name} frequency from {f} MHz to {alt} MHz.",
                            <<device_to_change.name>>,
                            <<Val(device_to_change.frequency), Val(alt_freq)[2]>>)>>
            ELSE <<>>
        adjust ==
            IF NotNone(device1.direction) /\ NotNone(device2.direction)
            THEN <<Sentence("Adjust antenna direction of {name1} or {name2} to reduce overlap.",
                            <<device1.name, device2.name>>, <<>>)>>
            ELSE <<>>
        recommendations ==
            change \o PowerSuggestion(device1) \o PowerSuggestion(device2) \o adjust
        body ==
            IF recommendations = <<>>
            THEN <<Sentence("Consider changing frequency of one device to a different band.",
                            <<>>, <<>>)>>
            ELSE recommendations
    IN  <<Sentence("Interference Severity: {severity}.", <<<<SeverityLabel(score)>>>>, <<>>)>>
        \o body

\* ------------------------------------------------ pairwise overlap analyzer
\* freq_devices: the registry devices with frequency and channel width known.
HasFrequency(d) == NotNone(d.frequency) /\ NotNone(d.channel_width)

freq_devices_of(registry) == SelectSeq(registry, HasFrequency)

\* SameSite for devices whose site has coordinates only.
SameSite_LocatedOnly(device1, device2) ==
    NotNone(device1.latitude) /\ device1.site_id = device2.site_id

\* device1.site_id == device2.site_id
SameSite(device1, device2) == device1.site_id = device2.site_id

RangesOverlap(device1, device2) ==
    /\ Val(device1.freq_min) <= Val(device2.freq_max)
    /\ Val(device1.freq_max) >= Val(device2.freq_min)

\* Qualifies without the co-location test.
Qualifies_IgnoringSite(device1, device2) ==
    /\ ~(IsNone(device1.freq_min) \/ IsNone(device1.freq_max)
         \/ IsNone(device2.freq_min) \/ IsNone(device2.freq_max))
    /\ RangesOverlap(device1, device2)

\* The pair passes the two `continue` tests and the overlap test.
Qualifies(device1, device2) ==
    /\ ~SameSite(device1, device2)
    /\ ~(IsNone(device1.freq_min) \/ IsNone(device1.freq_max)
         \/ IsNone(device2.freq_min) \/ IsNone(device2.freq_max))
    /\ RangesOverlap(device1, device2)

\* OverlapWidth as the width of the span of the two ranges.
OverlapWidth_Span(device1, device2) ==
    Max2(Val(device1.freq_max), Val(device2.freq_max))
    - Min2(Val(device1.freq_min), Val(device2.freq_min))

OverlapWidth(device1, device2) ==
    Min2(Val(device1.freq_max), Val(device2.freq_max))
    - Max2(Val(device1.freq_min), Val(device2.freq_min))

\* The pair's evaluation stops with an uncaught exception.
PairRaises(device1, device2) ==
    Qualifies(device1, device2) /\ ScoreRaises(PairDistance(device1, device2))

\* The InterferenceResult of a qualifying pair.
PairResult(registry, device1, device2) ==
    LET overlap == OverlapWidth(device1, device2)
        distance == PairDistance(device1, device2)
        spatial_overlap == _calculate_spatial_overlap(device1, device2)
        interference_score ==
            _calculate_interference_score(overlap, distance, spatial_overlap, device1, device2)
    IN  [device1 |-> device1,
         device2 |-> device2,
         frequency_overlap |-> overlap,
         distance |-> distance,
         spatial_overlap |-> spatial_overlap,
         interference_score |-> interference_score,
         recommendation |->
             _generate_recommendation(registry, device1, device2, overlap, distance,
                                      interference_score)]

\* The double loop from pair (i, j) on, with the results appended so far:
\* the list at the end of the loop, or at the pair whose evaluation raised.
RECURSIVE PairLoop(_, _, _, _, _)
PairLoop(registry, fd, i, j, acc) ==
    IF i > Len(fd) THEN [results |-> acc, raised |-> None]
    ELSE IF j > Len(fd) THEN PairLoop(registry, fd, i + 1, i + 2, acc)
    ELSE IF PairRaises(fd[i], fd[j]) THEN [results |-> acc, raised |-> Some("ValueError")]
    ELSE IF Qualifies(fd[i], fd[j])
         THEN PairLoop(registry, fd, i, j + 1, Append(acc, PairResult(registry, fd[i], fd[j])))
    ELSE PairLoop(registry, fd, i, j + 1, acc)

\* The pairs (i, j), i < j, of n positions in the order of the double loop.
RECURSIVE PairOrder(_, _, _)
PairOrder(n, i, j) ==
    IF i > n THEN <<>>
    ELSE IF j > n THEN PairOrder(n, i + 1, i + 2)
    ELSE <<(<<i, j>>)>> \o PairOrder(n, i, j + 1)

\* The loop body applied to the pairs in a given order, from position k on:
\* the results appended, up to the pair whose evaluation raised.
RECURSIVE EvaluatePairs(_, _, _, _, _)
EvaluatePairs(registry, fd, order, k, acc) ==
    IF k > Len(order) THEN [results |-> acc, raised |-> None]
    ELSE IF PairRaises(fd[order[k][1]], fd[order[k][2]])
         THEN [results |-> acc, raised |-> Some("ValueError")]
    ELSE IF Qualifies(fd[order[k][1]], fd[order[k][2]])
         THEN EvaluatePairs(registry, fd, order, k + 1,
                            Append(acc, PairResult(registry, fd[order[k][1]], fd[order[k][2]])))
    ELSE EvaluatePairs(registry, fd, order, k + 1, acc)

\* list.sort(key=score, reverse=True): descending and stable.
RECURSIVE InsertByScore(_, _)
InsertByScore(sorted, r) ==
    IF sorted = <<>> THEN <<r>>
    ELSE IF Head(sorted).interference_score >= r.interference_score
         THEN <<Head(sorted)>> \o InsertByScore(Tail(sorted), r)
    ELSE <<r>> \o sorted

RECURSIVE SortByScore(_, _)
SortByScore(list, k) ==
    IF k = 0 THEN <<>> ELSE InsertByScore(SortByScore(list, k - 1), list[k])

\* A detection run that appends to the list of the run before.
ResultsKept(old_results) == old_results

\* self.interference_results = [] at the start of a detection run.
ResultsAfterReset(old_results) == <<>>

\* detect_frequency_interference on a registry and the result list of the
\* detector: the list left in self.interference_results, and the exception
\* raised (None if it returned).
detect_frequency_interference(registry, old_results) ==
    LET fd == freq_devices_of(registry)
        loop == PairLoop(registry, fd, 1, 2, ResultsAfterReset(old_results))
    IN  IF Len(fd) < 2 THEN [results |-> ResultsAfterReset(old_results), raised |-> None]
        ELSE IF NotNone(loop.raised) THEN loop
        ELSE [results |-> SortByScore(loop.results, Len(loop.results)), raised |-> None]

\* ------------------------------------------------------- cluster analyzer
DefaultEps == 30
DefaultMinSamples == 2

\* x or 0
OrZero(x) == IF IsNone(x) THEN 0 ELSE Val(x)

\* Column k of the feature matrix X, one entry per result.
FeatureColumn(results, k) ==
    AsSeq([i \in 1..Len(results) |->
        CASE k = 1 -> OrZero(results[i].device1.frequency)
          [] k = 2 -> OrZero(results[i].device2.frequency)
          [] k = 3 -> results[i].interference_score])

\* X.std(axis=0) is 0 for a column whose values are all equal; the division
\* then gives NaN and DBSCAN.fit rejects the matrix with a ValueError.
ZeroStd(col) == \A i \in 1..Len(col) : col[i] = col[1]

NormalizationFails(results) == \E k \in 1..3 : ZeroStd(FeatureColumn(results, k))

SeqMin(col) == CHOOSE x \in { col[i] : i \in 1..Len(col) } : \A i \in 1..Len(col) : x <= col[i]
SeqMax(col) == CHOOSE x \in { col[i] : i \in 1..Len(col) } : \A i \in 1..Len(col) : x >= col[i]
RECURSIVE SeqSum(_, _)
SeqSum(col, k) == IF k = 0 THEN 0 ELSE col[k] + SeqSum(col, k - 1)

\* A z-score is unchanged when the column is shifted and rescaled: the column
\* is shifted to start at 0 and brought to a range of at most about 300 units,
\* which keeps the sums below within 32 bits.
Rescaled(col) ==
    LET lo == SeqMin(col)
        unit == 1 + ((SeqMax(col) - lo) \div 300)
    IN  AsSeq([i \in 1..Len(col) |-> (col[i] - lo) \div unit])

\* n^2 times the variance of the column: n * sum(y^2) - (sum y)^2.
ScaledVariance(y) ==
    LET n == Len(y)
    IN  n * SeqSum(AsSeq([i \in 1..n |-> y[i] * y[i]]), n) - SeqSum(y, n) * SeqSum(y, n)

\* The squared Euclidean distance of rows a and b of X_norm, each of the three
\* terms (x_a - x_b)^2 / variance rounded down to a whole number.  y[k] is
\* column k rescaled and v[k] its scaled variance.
DistSq(y, v, n, a, b) ==
    LET term(k) == (n * n * (y[k][a] - y[k][b]) * (y[k][a] - y[k][b])) \div v[k]
    IN  term(1) + term(2) + term(3)

\* DBSCAN(eps, min_samples).fit(X_norm).labels_ as a function 1..n -> label,
\* -1 for noise.  nb[i] is the eps-neighbourhood of row i (i included).
RECURSIVE Reach(_, _, _)
Reach(nb, core, S) ==
    LET T == S \cup UNION { nb[i] : i \in S \cap core }
    IN  IF T = S THEN S ELSE Reach(nb, core, T)

RECURSIVE AssignLabels(_, _, _, _, _)
AssignLabels(nb, core, i, labels, next) ==
    IF i > Len(labels) THEN labels
    ELSE IF labels[i] = -1 /\ i \in core
         THEN LET members == { j \in Reach(nb, core, {i}) : labels[j] = -1 }
              IN  AssignLabels(nb, core, i + 1,
                               AsSeq([j \in 1..Len(labels) |->
                                   IF j \in members THEN next ELSE labels[j]]),
                               next + 1)
    ELSE AssignLabels(nb, core, i + 1, labels, next)

DBSCAN(results, eps, min_samples) ==
    LET n == Len(results)
        y == AsSeq([k \in 1..3 |-> Rescaled(FeatureColumn(results, k))])
        v == AsSeq([k \in 1..3 |-> ScaledVariance(y[k])])
        nb == AsSeq([i \in 1..n |-> { j \in 1..n : DistSq(y, v, n, i, j) <= eps * eps }])
        core == { i \in 1..n : Cardinality(nb[i]) >= min_samples }
    IN  AssignLabels(nb, core, 1, AsSeq([i \in 1..n |-> -1]), 0)

\* The distinct values of a sequence, in order of first occurrence.
RECURSIVE FirstSeen(_, _)
FirstSeen(items, k) ==
    IF k = 0 THEN <<>>
    ELSE FirstSeen(items, k - 1)
         \o (IF \E m \in 1..(k - 1) : items[m] = items[k] THEN <<>> ELSE <<items[k]>>)

\* sorted(counts.items(), key=count, reverse=True): descending and stable.
RECURSIVE InsertByCount(_, _)
InsertByCount(sorted, e) ==
    IF sorted = <<>> THEN <<e>>
    ELSE IF Head(sorted)[2] >= e[2] THEN <<Head(sorted)>> \o InsertByCount(Tail(sorted), e)
    ELSE <<e>> \o sorted

RECURSIVE SortByCount(_, _)
SortByCount(list, k) ==
    IF k = 0 THEN <<>> ELSE InsertByCount(SortByCount(list, k - 1), list[k])

TopCount == 3

\* The TopCount most frequent values of items with their counts.
MostCommon(items) ==
    LET keys == FirstSeen(items, Len(items))
        counts == AsSeq([k \in 1..Len(keys) |->
                     <<keys[k], Cardinality({ m \in 1..Len(items) : items[m] = keys[k] })>>])
        ordered == SortByCount(counts, Len(counts))
    IN  SubSeq(ordered, 1, Min2(TopCount, Len(ordered)))

RECURSIVE BothSlots(_, _, _)
BothSlots(results, field, k) ==
    IF k = 0 THEN <<>>
    ELSE BothSlots(results, field, k - 1)
         \o <<results[k].device1[field], results[k].device2[field]>>

ClusterStats(label, results) ==
    [label |-> label,
     size |-> Len(results),
     avg_score |-> SeqSum(AsSeq([i \in 1..Len(results) |-> results[i].interference_score]),
                          Len(results)) \div Len(results),
     common_devices |-> MostCommon(BothSlots(results, "name", Len(results))),
     common_frequencies |-> MostCommon(BothSlots(results, "frequency", Len(results))),
     results |-> results]

\* The members of one label, in result order.
RECURSIVE Members(_, _, _, _)
Members(results, labels, label, k) ==
    IF k = 0 THEN <<>>
    ELSE Members(results, labels, label, k - 1)
         \o (IF labels[k] = label THEN <<results[k]>> ELSE <<>>)

\* IsClusterLabel with the noise label kept as a cluster.
IsClusterLabel_NoiseToo(label) == label # -2

\* if label == -1: continue
IsClusterLabel(label) == label # -1

\* A Python dict with the keys 'n_clusters' and 'clusters', or without them
\* (None for an absent key).  The cluster map is the sequence of its entries
\* in insertion order, each carrying its label.
EmptyDict == [n_clusters |-> None, clusters |-> None]

ClusteringRaises(results) == results # <<>> /\ NormalizationFails(results)

\* The returned dict, given the labels DBSCAN assigned.
GroupByLabel(results, labels, seen) ==
    [n_clusters |-> Some(Len(seen) - (IF InSeq(-1, labels) THEN 1 ELSE 0)),
     clusters |-> Some(AsSeq([c \in 1..Len(SelectSeq(seen, IsClusterLabel)) |->
                          ClusterStats(SelectSeq(seen, IsClusterLabel)[c],
                              Members(results, labels, SelectSeq(seen, IsClusterLabel)[c],
                                      Len(results)))]))]

LabelsSeen(results, labels) == GroupByLabel(results, labels, FirstSeen(labels, Len(labels)))

cluster_interference_issues(results, eps, min_samples) ==
    IF results = <<>> THEN EmptyDict
    ELSE LabelsSeen(results, DBSCAN(results, eps, min_samples))

\* ------------------------------------------------------- report assembler
TopLimit == 10

DeviceEntry(d) ==
    [id |-> d.id, name |-> d.name, frequency |-> d.frequency, channel_width |-> d.channel_width]

IssueEntry(result) ==
    [device1 |-> DeviceEntry(result.device1),
     device2 |-> DeviceEntry(result.device2),
     frequency_overlap |-> result.frequency_overlap,
     distance |-> result.distance,
     interference_score |-> result.interference_score,
     recommendation |-> result.recommendation]

\* TopEntry with the enumerate index as the rank.
TopEntry_ZeroBased(rank, result) == [rank |-> rank - 1, issue |-> IssueEntry(result)]

TopEntry(rank, result) == [rank |-> rank, issue |-> IssueEntry(result)]

IsHigh(r) == r.interference_score > HighAbove
\* IsMedium without its upper limit.
IsMedium_Unbounded(r) == MediumAbove < r.interference_score

IsMedium(r) == MediumAbove < r.interference_score /\ r.interference_score <= HighAbove
IsLow(r) == r.interference_score <= MediumAbove

\* dict.get(key, default)
GetOr(x, default) == IF IsNone(x) THEN default ELSE Val(x)

BuildReport(registry, results, clusters) ==
    [summary |->
        [total_devices |-> Len(registry),
         devices_with_frequency |->
             Cardinality({ k \in 1..Len(registry) : NotNone(registry[k].frequency) }),
         total_interference_issues |-> Len(results),
         high_severity_issues |-> Cardinality({ k \in 1..Len(results) : IsHigh(results[k]) }),
         medium_severity_issues |->
             Cardinality({ k \in 1..Len(results) : IsMedium(results[k]) }),
         low_severity_issues |-> Cardinality({ k \in 1..Len(results) : IsLow(results[k]) }),
         clusters |-> GetOr(clusters.n_clusters, 0)],
     top_issues |-> AsSeq([k \in 1..Min2(TopLimit, Len(results)) |->
                              TopEntry(k, results[k])]),
     clusters |-> GetOr(clusters.clusters, <<>>),
     all_issues |-> AsSeq([k \in 1..Len(results) |-> IssueEntry(results[k])])]

\* json.dump(report) raises TypeError on a cluster map entry: its key is a
\* numpy integer and its 'results' value holds InterferenceResult objects.
DumpRaises(report) == report.clusters # <<>>

\* json.dump(clusters) on the dict cluster_interference_issues returned: the
\* same TypeError as soon as the cluster map has an entry.
ClustersDumpRaises(dict) == GetOr(dict.clusters, <<>>) # <<>>

\* The return of generate_interference_report once the clusters are known.
AssembleAndSave(results, report, output_file) ==
    IF NotNone(output_file) /\ DumpRaises(report)
    THEN [results |-> results, raised |-> Some("TypeError"), returned |-> None]
    ELSE [results |-> results, raised |-> None, returned |-> Some(report)]

\* generate_interference_report from the clustering step on; pre is the
\* outcome of the detection step.
ClusterAndAssemble(registry, pre, output_file) ==
    IF NotNone(pre.raised)
    THEN [results |-> pre.results, raised |-> pre.raised, returned |-> None]
    ELSE IF ClusteringRaises(pre.results)
    THEN [results |-> pre.results, raised |-> Some("ValueError"), returned |-> None]
    ELSE AssembleAndSave(pre.results,
                         BuildReport(registry, pre.results,
                                     cluster_interference_issues(pre.results, DefaultEps,
                                                                 DefaultMinSamples)),
                         output_file)

\* generate_interference_report without the detection step of its own.
generate_interference_report_NoDetect(registry, results, output_file) ==
    ClusterAndAssemble(registry, [results |-> results, raised |-> None], output_file)

\* generate_interference_report(output_file) on a detector state: the result
\* list it leaves, the exception it raises (None if it returns) and the
\* report it returns.
generate_interference_report(registry, results, output_file) ==
    ClusterAndAssemble(registry,
                       IF results = <<>> THEN detect_frequency_interference(registry, results)
                       ELSE [results |-> results, raised |-> None],
                       output_file)

\* ------------------------------------------------------------ operations
\* InterferenceDetector(database): the registry is loaded once, on construction.
Init ==
    \E n \in 0..MaxDevices :
        \E ps \in [1..n -> Profiles] :
            /\ database = Database(ps)
            /\ devices = load_devices(Database(ps), <<>>)
            /\ interference_results = <<>>
            /\ last_call = "__init__"
            /\ raised = None
            /\ returned = None
            /\ previous_run = None
            /\ scorer_calls = <<>>

LoadDevices ==
    /\ Len(devices) + Len(database.devices) <= MaxRegistry
    /\ devices' = load_devices(database, devices)
    /\ last_call' = "load_devices"
    /\ raised' = None
    /\ returned' = None
    /\ UNCHANGED <<database, interference_results, previous_run, scorer_calls>>

DetectFrequencyInterference ==
    \E out \in {detect_frequency_interference(devices, interference_results)} :
        /\ interference_results' = out.results
        /\ raised' = out.raised
        /\ returned' = IF IsNone(out.raised) THEN Some(out.results) ELSE None
        /\ last_call' = "detect_frequency_interference"
        /\ UNCHANGED <<database, devices, previous_run, scorer_calls>>

ClusterInterferenceIssues ==
    /\ IF ClusteringRaises(interference_results)
       THEN raised' = Some("ValueError") /\ returned' = None
       ELSE /\ raised' = None
            /\ returned' = Some(cluster_interference_issues(interference_results,
                                                            DefaultEps, DefaultMinSamples))
    /\ last_call' = "cluster_interference_issues"
    /\ UNCHANGED <<database, devices, interference_results, previous_run, scorer_calls>>

\* collect_data: the data manager stores newly collected records in the
\* database the detector was constructed on; the detector is not touched.
CollectAndStoreData ==
    /\ Len(database.devices) < MaxDevices
    /\ \E p \in CollectedProfiles : database' = store_devices(database, p)
    /\ UNCHANGED <<devices, interference_results, last_call, raised, returned, previous_run,
                   scorer_calls>>

SameRegistryRanBefore == NotNone(previous_run) /\ Val(previous_run).devices = devices

\* An engine run is a detect_frequency_interference call that returned,
\* followed at once by a generate_interference_report call that returned.
CompletesRun(out) ==
    last_call = "detect_frequency_interference" /\ IsNone(raised) /\ IsNone(out.raised)

GenerateInterferenceReport ==
    \E output_file \in {None, Some("interference_report.json")} :
        \E out \in {generate_interference_report(devices, interference_results,
                                                   output_file)} :
            /\ interference_results' = out.results
            /\ raised' = out.raised
            /\ returned' = out.returned
            /\ last_call' = "generate_interference_report"
            /\ previous_run' = IF CompletesRun(out)
                               THEN Some([devices |-> devices,
                                          report |-> Val(out.returned),
                                          rerun |-> SameRegistryRanBefore])
                               ELSE previous_run
            /\ UNCHANGED <<database, devices, scorer_calls>>

Next ==
    \/ LoadDevices
    \/ DetectFrequencyInterference
    \/ ClusterInterferenceIssues
    \/ GenerateInterferenceReport
    \/ CollectAndStoreData

Spec == Init /\ [][Next]_vars

\* ------------------------------------------- the scorer called on its own
\* _calculate_interference_score is a function of its five arguments alone.
\* The arguments it is called with: overlap widths in MHz, distances in
\* metres (None if unknown), spatial overlaps in thousandths (None if
\* unknown) and Device objects of the registry.
ScoreOverlaps == {0, 15, 20}

ScoreDistances ==
    {None} \cup { Some(d) : d \in {0, 10, 50, 100, 500, 950, 1000, 2000, 5000, 10000} }

ScoreSpatialOverlaps == {None, Some(0), Some(250), Some(500), Some(1000)}

ScoreDevices ==
    { MakeDevice(Database(<<p>>), DeviceRecord(1, p)) :
        p \in { Profile(<<"AP", "North">>, Some("S1"), TRUE, Some(5180), Some(20), None),
                Profile(<<"ap", "west">>, Some("S3"), TRUE, Some(5200), Some(20), Some(20)),
                Profile(<<"ap">>, Some("S5"), TRUE, Some(5200), Some(40), Some(0 - 30)) } }

\* One call with its outcome: the four factors and the score, or the
\* exception raised at math.log10.
ScoreCall(frequency_overlap, distance, spatial_overlap, device1, device2) ==
    [frequency_overlap |-> frequency_overlap,
     distance |-> distance,
     spatial_overlap |-> spatial_overlap,
     device1 |-> device1,
     device2 |-> device2,
     raised |-> IF ScoreRaises(distance) THEN Some("ValueError") ELSE None,
     freq_score |-> FreqScore(frequency_overlap, device1, device2),
     distance_factor |-> IF ScoreRaises(distance) THEN None
                         ELSE Some(DistanceFactorOf(distance)),
     spatial_factor |-> SpatialFactor(spatial_overlap),
     tx_power_factor |-> TxPowerFactor(device1, device2),
     score |-> IF ScoreRaises(distance) THEN None
               ELSE Some(_calculate_interference_score(frequency_overlap, distance,
                                                       spatial_overlap, device1, device2))]

ScorerInit ==
    \E frequency_overlap \in ScoreOverlaps, distance \in ScoreDistances,
       spatial_overlap \in ScoreSpatialOverlaps, device1 \in ScoreDevices,
       device2 \in ScoreDevices :
        \E call \in {ScoreCall(frequency_overlap, distance, spatial_overlap,
                               device1, device2)} :
            /\ scorer_calls = <<call>>
            /\ database = Database(<<>>)
            /\ devices = <<device1, device2>>
            /\ interference_results = <<>>
            /\ last_call = "_calculate_interference_score"
            /\ raised = call.raised
            /\ returned = call.score
            /\ previous_run = None

\* The next call, made with the arguments of the last one except those given.
ScoreAgain(call) ==
    /\ scorer_calls' = <<call, scorer_calls[1]>>
    /\ raised' = call.raised
    /\ returned' = call.score
    /\ UNCHANGED <<database, devices, interference_results, last_call, previous_run>>

ScoreAtOtherDistance ==
    \E distance \in ScoreDistances \ {scorer_calls[1].distance} :
        ScoreAgain(ScoreCall(scorer_calls[1].frequency_overlap, distance,
                             scorer_calls[1].spatial_overlap,
                             scorer_calls[1].device1, scorer_calls[1].device2))

ScoreAtOtherSpatialOverlap ==
    \E spatial_overlap \in ScoreSpatialOverlaps \ {scorer_calls[1].spatial_overlap} :
        ScoreAgain(ScoreCall(scorer_calls[1].frequency_overlap, scorer_calls[1].distance,
                             spatial_overlap,
                             scorer_calls[1].device1, scorer_calls[1].device2))

ScorerNext ==
    \/ ScoreAtOtherDistance
    \/ ScoreAtOtherSpatialOverlap

ScorerSpec == ScorerInit /\ [][ScorerNext]_vars

\* ----------------------------------- the recommendation engine on its own
\* _generate_recommendation for the first two devices of a registry that
\* grows: a detector is constructed on the database, which holds the pair and
\* further devices on candidate frequencies, and the recommendation for the
\* pair is generated at a fixed score in the High band.
RecommendedPairProfiles ==
    { Profile(<<"AP", "North">>, Some("S1"), TRUE, Some(5180), Some(20), None),
      Profile(<<"ap">>, Some("S2"), TRUE, Some(5185), Some(20), None),
      Profile(<<"ap", "west">>, Some("S3"), TRUE, Some(5200), Some(20), Some(20)),
      Profile(<<"bridge">>, None, TRUE, Some(5500), Some(20), None) }

RecommendedScore == 75000

\* A further device of the network, on the given frequency.
OtherDevice(frequency) ==
    Profile(<<"omni">>, Some("S6"), TRUE, Some(frequency), Some(20), None)

\* The positions in potential_frequencies that no device of the registry uses.
FreePositions(registry) ==
    { c \in 1..Len(potential_frequencies) :
        \A k \in 1..Len(registry) : registry[k].frequency # Some(potential_frequencies[c]) }

\* InterferenceDetector(database), then _generate_recommendation(devices[0], devices[1], ...).
RecommendOn(db) ==
    \E registry \in {load_devices(db, <<>>)} :
        /\ database = db
        /\ devices = registry
        /\ returned = Some(_generate_recommendation(registry, registry[1], registry[2],
                                                    15, None, RecommendedScore))

RecommenderInit ==
    /\ \E p1 \in RecommendedPairProfiles, p2 \in RecommendedPairProfiles :
          RecommendOn(Database(<<p1, p2>>))
    /\ interference_results = <<>>
    /\ last_call = "_generate_recommendation"
    /\ raised = None
    /\ previous_run = None
    /\ scorer_calls = <<>>

RecommendAfterStoring(c) ==
    \E db \in {store_devices(database, OtherDevice(potential_frequencies[c]))} :
        \E registry \in {load_devices(db, <<>>)} :
            /\ database' = db
            /\ devices' = registry
            /\ returned' = Some(_generate_recommendation(registry, registry[1], registry[2],
                                                         15, None, RecommendedScore))
            /\ UNCHANGED <<interference_results, last_call, raised, previous_run,
                           scorer_calls>>

\* A device on the first free candidate frequency joins the network.
StoreOnFirstFree ==
    /\ FreePositions(devices) # {}
    /\ RecommendAfterStoring(CHOOSE c \in FreePositions(devices) :
                                 \A e \in FreePositions(devices) : c <= e)

\* A device on the last free candidate frequency joins the network; the
\* devices on the high frequencies join before those on the low ones.
StoreOnLastFree ==
    /\ FreePositions(devices) # {}
    /\ \A k \in 3..Len(devices) :
          \A c \in FreePositions(devices) :
              Val(devices[k].frequency) > potential_frequencies[c]
    /\ RecommendAfterStoring(CHOOSE c \in FreePositions(devices) :
                                 \A e \in FreePositions(devices) : c >= e)

RecommenderNext ==
    \/ StoreOnFirstFree
    \/ StoreOnLastFree

RecommenderSpec == RecommenderInit /\ [][RecommenderNext]_vars

\* ------------------------------------------ clustering with its parameters
\* cluster_interference_issues(eps, min_samples) called with other values than
\* its defaults, on detectors over a small network without co-located pairs
\* at distance 0.
ClusterProfiles ==
    { Profile(<<"AP", "North">>, Some("S1"), TRUE, Some(5180), Some(20), None),
      Profile(<<"ap">>, Some("S2"), TRUE, Some(5185), Some(20), None),
      Profile(<<"ap", "west">>, Some("S3"), TRUE, Some(5200), Some(20), Some(20)),
      Profile(<<"ap">>, Some("S5"), TRUE, Some(5200), Some(40), Some(0 - 30)) }

ClusterEps == {1, 2, DefaultEps}
ClusterMinSamples == {DefaultMinSamples, 3}

ClusterInit ==
    \E n \in 0..MaxDevices :
        \E ps \in [1..n -> ClusterProfiles] :
            /\ database = Database(ps)
            /\ devices = load_devices(Database(ps), <<>>)
            /\ interference_results = <<>>
            /\ last_call = "__init__"
            /\ raised = None
            /\ returned = None
            /\ previous_run = None
            /\ scorer_calls = <<>>

ClusterInterferenceIssuesWith ==
    \E eps \in ClusterEps, min_samples \in ClusterMinSamples :
        /\ IF ClusteringRaises(interference_results)
           THEN raised' = Some("ValueError") /\ returned' = None
           ELSE /\ raised' = None
                /\ returned' = Some(cluster_interference_issues(interference_results,
                                                                eps, min_samples))
        /\ last_call' = "cluster_interference_issues"
        /\ UNCHANGED <<database, devices, interference_results, previous_run, scorer_calls>>

ClusterNext ==
    \/ LoadDevices
    \/ DetectFrequencyInterference
    \/ ClusterInterferenceIssuesWith

ClusterSpec == ClusterInit /\ [][ClusterNext]_vars

\* -------------------------------------------- devices without a known site
\* Detectors over a network in which device records carry no siteId, or a
\* siteId for which the database holds no site record.
UnsitedProfiles ==
    { Profile(<<"bridge">>, None, TRUE, Some(5500), Some(20), None),
      Profile(<<"ptp">>, None, TRUE, Some(5510), Some(20), Some(20)),
      Profile(<<"ptp", "east">>, Some("S9"), TRUE, Some(5180), Some(20), Some(10)),
      Profile(<<"ptp", "west">>, Some("S9"), TRUE, Some(5185), Some(20), None),
      Profile(<<"ap">>, Some("S3"), TRUE, Some(5500), Some(40), None) }

UnsitedInit ==
    \E n \in 0..MaxDevices :
        \E ps \in [1..n -> UnsitedProfiles] :
            /\ database = Database(ps)
            /\ devices = load_devices(Database(ps), <<>>)
            /\ interference_results = <<>>
            /\ last_call = "__init__"
            /\ raised = None
            /\ returned = None
            /\ previous_run = None
            /\ scorer_calls = <<>>

UnsitedSpec == UnsitedInit /\ [][Next]_vars

\* ------------------------------------------- detectors that never detected
\* Detectors whose caller never calls detect_frequency_interference: the
\* result list is filled by generate_interference_report only.
FreshProfiles ==
    { Profile(<<"AP", "North">>, Some("S1"), TRUE, Some(5180), Some(20), None),
      Profile(<<"ap">>, Some("S2"), TRUE, Some(5185), Some(20), None),
      Profile(<<"ap", "west">>, Some("S3"), TRUE, Some(5200), Some(20), Some(20)),
      Profile(<<"relay">>, Some("S4"), TRUE, Some(5190), Some(20), Some(0 - 30)),
      Profile(<<"bridge">>, None, TRUE, Some(5500), Some(20), None) }

FreshInit ==
    \E n \in 0..MaxDevices :
        \E ps \in [1..n -> FreshProfiles] :
            /\ database = Database(ps)
            /\ devices = load_devices(Database(ps), <<>>)
            /\ interference_results = <<>>
            /\ last_call = "__init__"
            /\ raised = None
            /\ returned = None
            /\ previous_run = None
            /\ scorer_calls = <<>>

FreshNext ==
    \/ LoadDevices
    \/ ClusterInterferenceIssues
    \/ GenerateInterferenceReport

FreshSpec == FreshInit /\ [][FreshNext]_vars

\* ---------------------------------------------------------------- claims
Results == interference_results
ResultIndex == 1..Len(interference_results)
Called(method) == last_call = method
Detected == Called("detect_frequency_interference")
Clustered == Called("cluster_interference_issues")
Reported == Called("generate_interference_report")

\* C1: no Conflict Result in the detector's result list has two devices that
\* share a site id.
C1_CoLocationExclusion ==
    \A k \in ResultIndex : Results[k].device1.site_id # Results[k].device2.site_id

\* C1 witness: a detection run returned results although two registry devices
\* with overlapping ranges share a site id.
C1_Witness ==
    /\ Detected /\ IsNone(raised) /\ Results # <<>>
    /\ \E i, j \in 1..Len(devices) :
          /\ i < j
          /\ HasFrequency(devices[i]) /\ HasFrequency(devices[j])
          /\ NotNone(devices[i].site_id)
          /\ devices[i].site_id = devices[j].site_id
          /\ RangesOverlap(devices[i], devices[j])

NonIncreasing(scores) ==
    \A k \in 1..(Len(scores) - 1) : scores[k] >= scores[k + 1]

\* C2: whatever calls were made, the detector's result list is in
\* non-increasing score order, and so is the full issue list of a returned report.
C2_SortedByScore ==
    /\ NonIncreasing(AsSeq([k \in ResultIndex |-> Results[k].interference_score]))
    /\ (Reported /\ NotNone(returned)) =>
          NonIncreasing(AsSeq([k \in 1..Len(Val(returned).all_issues) |->
                                  Val(returned).all_issues[k].interference_score]))

\* C3: in every Conflict Result both devices have freq_min <= freq_max and the
\* recorded overlap width is not negative.
C3_RangesWellFormed ==
    \A k \in ResultIndex :
        /\ Val(Results[k].device1.freq_min) <= Val(Results[k].device1.freq_max)
        /\ Val(Results[k].device2.freq_min) <= Val(Results[k].device2.freq_max)
        /\ Results[k].frequency_overlap >= 0

\* The specification's eligibility of a pair, stated on the device fields.
Eligible(a, b) ==
    /\ NotNone(a.frequency) /\ NotNone(a.channel_width)
    /\ NotNone(b.frequency) /\ NotNone(b.channel_width)
    /\ a.site_id # b.site_id
    /\ Val(a.freq_min) <= Val(b.freq_max)
    /\ Val(a.freq_max) >= Val(b.freq_min)

\* C4: after a detection call the result list holds exactly one result for each
\* pair of registry positions i < j whose devices are eligible, and nothing else.
C4_ExactlyQualifyingPairs ==
    Detected =>
       /\ Len(Results) =
             Cardinality({ p \in (1..Len(devices)) \X (1..Len(devices)) :
                             p[1] < p[2] /\ Eligible(devices[p[1]], devices[p[2]]) })
       /\ \A i, j \in 1..Len(devices) :
             (i < j) =>
                Cardinality({ k \in ResultIndex :
                                Results[k].device1 = devices[i]
                                /\ Results[k].device2 = devices[j] })
                = Cardinality({ p \in (1..Len(devices)) \X (1..Len(devices)) :
                                  /\ p[1] < p[2]
                                  /\ devices[p[1]] = devices[i]
                                  /\ devices[p[2]] = devices[j]
                                  /\ Eligible(devices[i], devices[j]) })

\* C5: the interference score of every Conflict Result is not negative.
C5_ScoreNonNegative ==
    \A k \in ResultIndex : Results[k].interference_score >= 0

\* C6: a detection call always runs to completion and returns its result list.
C6_DetectionNeverAborts ==
    Detected => (IsNone(raised) /\ NotNone(returned))

\* C7: a report call always returns a report.
C7_ReportNeverFails ==
    Reported => (IsNone(raised) /\ NotNone(returned))

\* C8: a clustering call made with fewer than 2 results returns zero clusters
\* and an empty cluster map.
C8_FewResultsNoClustering ==
    (Clustered /\ Len(Results) < 2) =>
        /\ IsNone(raised)
        /\ NotNone(returned)
        /\ GetOr(Val(returned).n_clusters, 0) = 0
        /\ GetOr(Val(returned).clusters, <<>>) = <<>>

LabelSentence(label) == Sentence("Interference Severity: {severity}.", <<<<label>>>>, <<>>)

\* C9: a score below 20 gives exactly the no-action text; from 20 on the text
\* starts with the label High above 70, Medium above 40 up to 70, Low up to 40.
C9_RecommendationBands ==
    \A k \in ResultIndex :
        LET score == Results[k].interference_score
            text == Results[k].recommendation
        IN  /\ (score < 20000) => text = NoActionText
            /\ (score >= 20000) =>
                  /\ Len(text) >= 2
                  /\ (text[1] = LabelSentence("High")) <=> (score > 70000)
                  /\ (text[1] = LabelSentence("Medium")) <=> (40000 < score /\ score <= 70000)
                  /\ (text[1] = LabelSentence("Low")) <=> (score <= 40000)

\* C9 witness: one result list with a negligible score, a Low and a Medium one.
C9_Witness ==
    /\ \E k \in ResultIndex : Results[k].interference_score < 20000
    /\ \E k \in ResultIndex : Results[k].recommendation[1] = LabelSentence("Medium")
    /\ \E k \in ResultIndex : Results[k].recommendation[1] = LabelSentence("Low")

\* C10: an engine run (detection, then report) on the registry of the previous
\* completed run returns the report that run returned.
C10_RerunDeterministic ==
    [][ ( /\ Detected /\ IsNone(raised)
          /\ last_call' = "generate_interference_report" /\ IsNone(raised')
          /\ NotNone(previous_run)
          /\ Val(previous_run).devices = devices )
        => Val(returned') = Val(previous_run).report ]_vars

\* C10 witness: a second engine run completed on the same registry, with two
\* issues of equal score in its report.
C10_Witness ==
    /\ Reported /\ IsNone(raised) /\ NotNone(returned)
    /\ NotNone(previous_run)
    /\ Val(previous_run).rerun
    /\ Val(previous_run).devices = devices
    /\ \E k \in 1..(Len(Val(returned).all_issues) - 1) :
          Val(returned).all_issues[k].interference_score
          = Val(returned).all_issues[k + 1].interference_score

\* C11: a report call never fails while writing the report, every returned
\* report can be serialised, and so can every dict a clustering call returned,
\* whether or not a cluster exists.
C11_ReportSerialisable ==
    /\ Reported => raised # Some("TypeError")
    /\ (Reported /\ NotNone(returned)) => ~DumpRaises(Val(returned))
    /\ (Clustered /\ NotNone(returned)) => ~ClustersDumpRaises(Val(returned))

\* C12: every detection call analyses a registry that holds the Device object
\* of every device record that is in the database when the call is made.
C12_CurrentSnapshot ==
    [][ (last_call' = "detect_frequency_interference" /\ database' = database) =>
            \A i \in 1..Len(database.devices) :
                \E k \in 1..Len(devices) :
                    devices[k] = MakeDevice(database, database.devices[i]) ]_vars

LastScoreCall == scorer_calls[1]
ScoreCallBefore == scorer_calls[2]

\* C13: of two scorer calls that differ in the distance only, both known and
\* positive, the one with the larger distance has no larger distance factor;
\* of two that differ in the spatial overlap only, both known, the one with the
\* larger overlap has no smaller spatial factor.
C13_ScoringMonotonic ==
    Len(scorer_calls) = 2 =>
        /\ ( /\ NotNone(LastScoreCall.distance_factor)
             /\ NotNone(ScoreCallBefore.distance_factor)
             /\ NotNone(LastScoreCall.distance) /\ NotNone(ScoreCallBefore.distance)
             /\ Val(LastScoreCall.distance) > Val(ScoreCallBefore.distance) )
           => Val(LastScoreCall.distance_factor) <= Val(ScoreCallBefore.distance_factor)
        /\ ( /\ NotNone(LastScoreCall.spatial_overlap)
             /\ NotNone(ScoreCallBefore.spatial_overlap)
             /\ Val(LastScoreCall.spatial_overlap) > Val(ScoreCallBefore.spatial_overlap) )
           => LastScoreCall.spatial_factor >= ScoreCallBefore.spatial_factor

\* C13 witness: a call at 1000 m after one at 50 m, everything else equal, with
\* a smaller distance factor and a smaller score.
C13_Witness ==
    /\ Len(scorer_calls) = 2
    /\ ScoreCallBefore.distance = Some(50)
    /\ LastScoreCall.distance = Some(1000)
    /\ LastScoreCall.spatial_overlap = ScoreCallBefore.spatial_overlap
    /\ Val(LastScoreCall.distance_factor) < Val(ScoreCallBefore.distance_factor)
    /\ Val(LastScoreCall.score) < Val(ScoreCallBefore.score)

\* The devices of the worked example.
IsDeviceA(d) ==
    d.frequency = Some(5180) /\ d.channel_width = Some(20) /\ d.site_id = Some("S1")
IsDeviceB(d) ==
    d.frequency = Some(5185) /\ d.channel_width = Some(20) /\ d.site_id = Some("S2")
IsPairAB(r) ==
    \/ IsDeviceA(r.device1) /\ IsDeviceB(r.device2)
    \/ IsDeviceB(r.device1) /\ IsDeviceA(r.device2)

\* C14: after a detection call on a registry with one device A (5180 MHz, 20 MHz,
\* site S1) and one device B (5185 MHz, 20 MHz, site S2, 50 m away) there is
\* exactly one result for the pair; it has overlap width 15, frequency factor 75
\* and, with spatial overlap and transmit powers absent, a score above 70 and
\* the severity label High.
C14_WorkedExample ==
    ( /\ Detected /\ IsNone(raised)
      /\ Cardinality({ i \in 1..Len(devices) : IsDeviceA(devices[i]) }) = 1
      /\ Cardinality({ i \in 1..Len(devices) : IsDeviceB(devices[i]) }) = 1 )
    => /\ Cardinality({ k \in ResultIndex : IsPairAB(Results[k]) }) = 1
       /\ \A k \in ResultIndex :
             IsPairAB(Results[k]) =>
                /\ Results[k].frequency_overlap = 15
                /\ Results[k].distance = Some(50)
                /\ FreqScore(Results[k].frequency_overlap,
                             Results[k].device1, Results[k].device2) = 75000
                /\ ( /\ IsNone(Results[k].spatial_overlap)
                     /\ IsNone(Results[k].device1.tx_power)
                     /\ IsNone(Results[k].device2.tx_power) )
                   => /\ Results[k].interference_score > 70000
                      /\ Results[k].recommendation[1] = LabelSentence("High")

\* C14 witness: a detection call returned the result of the pair A, B with
\* spatial overlap and transmit powers absent.
C14_Witness ==
    /\ Detected /\ IsNone(raised)
    /\ Cardinality({ i \in 1..Len(devices) : IsDeviceA(devices[i]) }) = 1
    /\ Cardinality({ i \in 1..Len(devices) : IsDeviceB(devices[i]) }) = 1
    /\ \E k \in ResultIndex :
          /\ IsPairAB(Results[k])
          /\ IsNone(Results[k].spatial_overlap)
          /\ IsNone(Results[k].device1.tx_power)
          /\ IsNone(Results[k].device2.tx_power)
          /\ Results[k].interference_score = 70350

Report == Val(returned)
ScoresIn(band) == Cardinality({ k \in ResultIndex : Results[k].interference_score \in band })

\* C15: a returned report counts the registry devices, the devices with a
\* frequency, the results and the results with score > 70, with 40 < score <= 70
\* and with score <= 40; its full issue list has one entry per result, in result
\* order; its top list is the first min(10, total) entries of the full list,
\* ranked 1, 2, ...
C15_SummaryAggregates ==
    (Reported /\ NotNone(returned)) =>
        /\ Report.summary.total_devices = Len(devices)
        /\ Report.summary.devices_with_frequency =
              Cardinality({ i \in 1..Len(devices) : devices[i].frequency # None })
        /\ Report.summary.total_interference_issues = Len(Results)
        /\ Report.summary.high_severity_issues = ScoresIn({ x \in Int : x > 70000 })
        /\ Report.summary.medium_severity_issues =
              ScoresIn({ x \in Int : 40000 < x /\ x <= 70000 })
        /\ Report.summary.low_severity_issues = ScoresIn({ x \in Int : x <= 40000 })
        /\ Len(Report.all_issues) = Len(Results)
        /\ \A k \in ResultIndex :
              /\ Report.all_issues[k].interference_score = Results[k].interference_score
              /\ Report.all_issues[k].device1.id = Results[k].device1.id
              /\ Report.all_issues[k].device2.id = Results[k].device2.id
        /\ Len(Report.top_issues) = Min2(10, Len(Results))
        /\ \A k \in 1..Len(Report.top_issues) :
              /\ Report.top_issues[k].rank = k
              /\ Report.top_issues[k].issue = Report.all_issues[k]

\* C15 witness: a returned report over more than 10 results, with a High and a
\* Low issue among them.
C15_Witness ==
    /\ Reported /\ NotNone(returned)
    /\ Len(Results) > 10
    /\ Len(Report.top_issues) = 10
    /\ Report.summary.high_severity_issues > 0
    /\ Report.summary.low_severity_issues > 0

\* The bearing from a to b for two points on one meridian: due north or due south.
BearingToward(a, b) == IF Val(b.latitude) >= Val(a.latitude) THEN 0 ELSE 180

CardinalBearing(direction) ==
    CASE direction = "north" -> 0
      [] direction = "east" -> 90
      [] direction = "south" -> 180
      [] direction = "west" -> 270

\* The absolute angular difference of two bearings, within [0, 180].
Deviation(a, b) ==
    LET raw == Abs(CardinalBearing(Val(a.direction)) - BearingToward(a, b)) % 360
    IN  IF raw > 180 THEN 360 - raw ELSE raw

Faces(a, b) == 2 * Deviation(a, b) <= Val(a.beam_width)

\* 1 - deviation / half-beam, in thousandths.
Closeness(a, b) == 1000 - ((2000 * Deviation(a, b)) \div Val(a.beam_width))

FacingFraction(a, b) ==
    IF Faces(a, b) /\ Faces(b, a) THEN (Closeness(a, b) + Closeness(b, a)) \div 2
    ELSE IF Faces(a, b) THEN Closeness(a, b) \div 2
    ELSE IF Faces(b, a) THEN Closeness(b, a) \div 2
    ELSE 0

HasFacingData(d) ==
    /\ NotNone(d.direction) /\ NotNone(d.beam_width)
    /\ NotNone(d.latitude) /\ NotNone(d.longitude)

\* C16: in every result whose two devices have direction, beam width and
\* coordinates, the spatial overlap is the facing fraction of the pair, a value
\* within [0, 1].
C16_FacingFraction ==
    \A k \in ResultIndex :
        (HasFacingData(Results[k].device1) /\ HasFacingData(Results[k].device2)) =>
            /\ Results[k].spatial_overlap =
                  Some(FacingFraction(Results[k].device1, Results[k].device2))
            /\ 0 <= Val(Results[k].spatial_overlap)
            /\ Val(Results[k].spatial_overlap) <= 1000

\* C17: in a scorer call that returns, the distance factor is 1.0 for an absent
\* distance, the spatial factor is 1.0 for an absent spatial overlap and
\* 0.2 + 0.8 * overlap for a known one (0.2 at overlap 0), the power factor is
\* 1.0 unless both transmit powers are known, the score is the product of the
\* four factors, and with all three inputs absent it is the frequency factor.
C17_AbsentInputsNeutral ==
    (Len(scorer_calls) >= 1 /\ IsNone(LastScoreCall.raised)) =>
        /\ IsNone(LastScoreCall.distance) => Val(LastScoreCall.distance_factor) = 1000
        /\ IsNone(LastScoreCall.spatial_overlap) => LastScoreCall.spatial_factor = 1000
        /\ NotNone(LastScoreCall.spatial_overlap) =>
              LastScoreCall.spatial_factor
              = 200 + (800 * Val(LastScoreCall.spatial_overlap)) \div 1000
        /\ LastScoreCall.spatial_overlap = Some(0) => LastScoreCall.spatial_factor = 200
        /\ (IsNone(LastScoreCall.device1.tx_power) \/ IsNone(LastScoreCall.device2.tx_power))
              => LastScoreCall.tx_power_factor = 1000
        /\ Val(LastScoreCall.score)
              = (((((LastScoreCall.freq_score * Val(LastScoreCall.distance_factor)) \div 1000)
                     * LastScoreCall.spatial_factor) \div 1000)
                   * LastScoreCall.tx_power_factor) \div 1000
        /\ ( /\ IsNone(LastScoreCall.distance)
             /\ IsNone(LastScoreCall.spatial_overlap)
             /\ (IsNone(LastScoreCall.device1.tx_power)
                 \/ IsNone(LastScoreCall.device2.tx_power)) )
           => Val(LastScoreCall.score) = LastScoreCall.freq_score

\* C17 witness: a call with distance and transmit power absent after a call
\* that differed in the spatial overlap only: absent in one (score equal to
\* the frequency factor 75), known to be 0 in the other (factor 0.2, score 15).
C17_Witness ==
    /\ Len(scorer_calls) = 2
    /\ IsNone(LastScoreCall.distance)
    /\ IsNone(LastScoreCall.device1.tx_power)
    /\ IsNone(LastScoreCall.spatial_overlap)
    /\ LastScoreCall.freq_score = 75000
    /\ LastScoreCall.score = Some(75000)
    /\ ScoreCallBefore.spatial_overlap = Some(0)
    /\ ScoreCallBefore.score = Some(15000)

\* The word occurs as a substring of the lower-cased name.
Occurs(word, name) ==
    \E k \in 1..Len(name) : word \in DirectionWordsIn(Lower(name[k]))

\* C18: the direction of every registry device is the first of north, east,
\* south, west that occurs in its lower-cased name, and absent if none does;
\* its beam width is 90 when a direction was matched and absent otherwise.
C18_FacingInference ==
    \A i \in 1..Len(devices) :
        /\ devices[i].direction =
              (IF Occurs("north", devices[i].name) THEN <<"north">>
               ELSE IF Occurs("east", devices[i].name) THEN <<"east">>
               ELSE IF Occurs("south", devices[i].name) THEN <<"south">>
               ELSE IF Occurs("west", devices[i].name) THEN <<"west">>
               ELSE <<>>)
        /\ devices[i].beam_width = (IF devices[i].direction # <<>> THEN <<90>> ELSE <<>>)

\* C18 witness: the registry holds a device whose name contains south and east
\* (direction east), one matched by a capitalised North and one without match.
C18_Witness ==
    /\ \E i \in 1..Len(devices) :
          /\ Occurs("south", devices[i].name) /\ Occurs("east", devices[i].name)
          /\ devices[i].direction = <<"east">>
          /\ devices[i].beam_width = <<90>>
    /\ \E i \in 1..Len(devices) :
          devices[i].name = <<"AP", "North">> /\ devices[i].direction = <<"north">>
    /\ \E i \in 1..Len(devices) :
          devices[i].direction = <<>> /\ devices[i].beam_width = <<>>

SiteMissing(d) ==
    \/ d.site_id = <<>>
    \/ ~\E s \in 1..Len(database.sites) : database.sites[s].id = d.site_id[1]

RadioMissing(d) ==
    ~\E c \in 1..Len(database.wireless_configs) : database.wireless_configs[c].deviceId = d.id

\* C19: a registry device whose site is missing has no latitude and longitude;
\* one whose radio configuration is missing has no frequency, channel width and
\* transmit power; freq_min and freq_max are frequency -/+ channel_width/2 when
\* frequency and channel width are both present, and absent otherwise.
C19_RegistryConstruction ==
    \A i \in 1..Len(devices) :
        /\ SiteMissing(devices[i]) =>
              devices[i].latitude = <<>> /\ devices[i].longitude = <<>>
        /\ RadioMissing(devices[i]) =>
              /\ devices[i].frequency = <<>>
              /\ devices[i].channel_width = <<>>
              /\ devices[i].tx_power = <<>>
        /\ (devices[i].frequency # <<>> /\ devices[i].channel_width # <<>>) =>
              /\ devices[i].freq_min
                    = <<devices[i].frequency[1] - (devices[i].channel_width[1] \div 2)>>
              /\ devices[i].freq_max
                    = <<devices[i].frequency[1] + (devices[i].channel_width[1] \div 2)>>
        /\ (devices[i].frequency = <<>> \/ devices[i].channel_width = <<>>) =>
              devices[i].freq_min = <<>> /\ devices[i].freq_max = <<>>

\* C19 witness: the registry holds a device whose site is missing, one whose
\* radio configuration is missing and one with a frequency but no channel width.
C19_Witness ==
    /\ \E i \in 1..Len(devices) :
          /\ devices[i].site_id # <<>> /\ SiteMissing(devices[i])
          /\ devices[i].frequency # <<>> /\ devices[i].freq_min # <<>>
    /\ \E i \in 1..Len(devices) : RadioMissing(devices[i]) /\ ~SiteMissing(devices[i])
    /\ \E i \in 1..Len(devices) :
          /\ devices[i].frequency # <<>> /\ devices[i].channel_width = <<>>
          /\ devices[i].freq_min = <<>>

ChangeWording == "Change {name} frequency from {f} MHz to {alt} MHz."
ReduceWording == "Reduce transmit power of {name} from {p} dBm to {q} dBm."
AdjustWording == "Adjust antenna direction of {name1} or {name2} to reduce overlap."
FallbackWording == "Consider changing frequency of one device to a different band."

\* A sentence without the particulars of a frequency change.
Outline(sentence) ==
    IF sentence.kind = ChangeWording
    THEN [kind |-> ChangeWording, names |-> <<>>, numbers |-> <<>>]
    ELSE sentence

ReduceSentence(d) ==
    IF d.tx_power # <<>> /\ d.tx_power[1] > 15
    THEN <<[kind |-> ReduceWording, names |-> <<d.name>>,
            numbers |-> <<d.tx_power[1], d.tx_power[1] - 3>>]>>
    ELSE <<>>

\* The suggestions the four rules produce for a result, in rule order.
Suggestions(r) ==
    (IF _find_alternative_frequency(devices, r.device1, r.device2) # <<>>
     THEN <<[kind |-> ChangeWording, names |-> <<>>, numbers |-> <<>>]>> ELSE <<>>)
    \o ReduceSentence(r.device1)
    \o ReduceSentence(r.device2)
    \o (IF r.device1.direction # <<>> /\ r.device2.direction # <<>>
        THEN <<[kind |-> AdjustWording, names |-> <<r.device1.name, r.device2.name>>,
                numbers |-> <<>>]>>
        ELSE <<>>)

\* The recommendation after its severity sentence.
Body(r) == AsSeq([k \in 1..(Len(r.recommendation) - 1) |-> Outline(r.recommendation[k + 1])])

\* C20: after a detection call, the recommendation of every result with score
\* >= 20 continues after the severity sentence with the frequency change (if an
\* alternative was found), the power reduction to power - 3 for device 1 and
\* for device 2 (each iff its power is known and above 15 dBm) and the antenna
\* suggestion (iff both have a direction), in this order; it is the generic
\* fallback sentence alone iff none of them was produced.
C20_RecommendationBody ==
    Detected =>
        \A k \in ResultIndex :
            (Results[k].interference_score >= 20000) =>
                /\ Suggestions(Results[k]) # <<>> => Body(Results[k]) = Suggestions(Results[k])
                /\ Suggestions(Results[k]) = <<>> =>
                      Body(Results[k])
                      = <<[kind |-> FallbackWording, names |-> <<>>, numbers |-> <<>>]>>

\* C20 witness: a detection call left a result with score >= 20 whose
\* recommendation has all four suggestions after the severity sentence.
C20_Witness ==
    /\ Detected
    /\ \E k \in ResultIndex :
          /\ Results[k].interference_score >= 20000
          /\ Len(Results[k].recommendation) = 5
          /\ Results[k].recommendation[2].kind = ChangeWording
          /\ Results[k].recommendation[3].kind = ReduceWording
          /\ Results[k].recommendation[3].names = <<Results[k].device1.name>>
          /\ Results[k].recommendation[4].kind = ReduceWording
          /\ Results[k].recommendation[4].names = <<Results[k].device2.name>>
          /\ Results[k].recommendation[5].kind = AdjustWording

CandidateFrequencies == { potential_frequencies[c] : c \in 1..Len(potential_frequencies) }
UsedFrequencies ==
    { devices[k].frequency[1] : k \in { m \in 1..Len(devices) : devices[m].frequency # <<>> } }
OnCandidate(d) == d.frequency # <<>> /\ d.frequency[1] \in CandidateFrequencies
Recommendation == returned[1]
ChangeSentences ==
    { k \in 1..Len(Recommendation) :
        Recommendation[k].kind = "Change {name} frequency from {f} MHz to {alt} MHz." }

\* C21: the recommendation for devices 1 and 2 of the registry has a frequency
\* change iff one of the two is on a candidate frequency and some candidate is
\* used by no registry device; the new frequency is then the first candidate in
\* list order that no registry device uses, and the device named (with its
\* current frequency) is device 1 if it is on a candidate, otherwise device 2.
C21_AlternativeFrequency ==
    /\ (ChangeSentences # {}) <=>
          ( /\ OnCandidate(devices[1]) \/ OnCandidate(devices[2])
            /\ CandidateFrequencies \ UsedFrequencies # {} )
    /\ \A k \in ChangeSentences :
          LET named == IF OnCandidate(devices[1]) THEN devices[1] ELSE devices[2]
              alt == Recommendation[k].numbers[2]
          IN  /\ k = 2
              /\ Recommendation[k].names = <<named.name>>
              /\ Recommendation[k].numbers[1] = named.frequency[1]
              /\ alt \in CandidateFrequencies \ UsedFrequencies
              /\ \A c \in 1..Len(potential_frequencies) :
                    potential_frequencies[c] = alt =>
                        \A b \in 1..(c - 1) : potential_frequencies[b] \in UsedFrequencies

\* C21 witness: device 1 is on no candidate and device 2 is; the candidates
\* before 5220 and after it are in use, and the change names device 2 and 5220.
C21_Witness ==
    /\ ~OnCandidate(devices[1]) /\ OnCandidate(devices[2])
    /\ 5180 \in UsedFrequencies /\ 5200 \in UsedFrequencies /\ 5825 \in UsedFrequencies
    /\ ChangeSentences = {2}
    /\ Recommendation[2].names = <<devices[2].name>>
    /\ Recommendation[2].numbers = <<devices[2].frequency[1], 5220>>

\* C22: a report call leaves the device registry and the result list as they
\* were before the call, in every detector state.
C22_ReportOnlyReads ==
    [][ last_call' = "generate_interference_report" =>
            /\ devices' = devices
            /\ interference_results' = interference_results ]_vars

Reversed(seq) == AsSeq([k \in 1..Len(seq) |-> seq[Len(seq) + 1 - k]])
Members_(seq) == { seq[k] : k \in 1..Len(seq) }
AnalysedDevices == freq_devices_of(devices)
LoopOrder == PairOrder(Len(AnalysedDevices), 1, 2)

\* C23: after a detection call, evaluating the pairs of the analysed devices in
\* the reverse of the loop order yields the set of Conflict Results the call left.
C23_OrderIndependent ==
    Detected =>
        Members_(EvaluatePairs(devices, AnalysedDevices, Reversed(LoopOrder), 1, <<>>).results)
        = Members_(Results)

ClusterMap == IF returned[1].clusters = <<>> THEN <<>> ELSE returned[1].clusters[1]
ClusterCount == IF returned[1].n_clusters = <<>> THEN 0 ELSE returned[1].n_clusters[1]
Occurrences(x, seq) == Cardinality({ k \in 1..Len(seq) : seq[k] = x })
RECURSIVE TotalScore(_)
TotalScore(members) ==
    IF members = <<>> THEN 0 ELSE Head(members).interference_score + TotalScore(Tail(members))
InSomeCluster(r) ==
    \E c \in 1..Len(ClusterMap) : r \in Members_(ClusterMap[c].results)

\* The state after a clustering call that returned groups the result list
\* correctly: members are results, no result is in more clusters than it
\* occurs in the list, sizes and mean scores are those of the members, and the
\* cluster count is the number of clusters in the map.
GroupingSound ==
    /\ ClusterCount = Len(ClusterMap)
    /\ \A c \in 1..Len(ClusterMap) :
          /\ ClusterMap[c].results # <<>>
          /\ Members_(ClusterMap[c].results) \subseteq Members_(Results)
          /\ ClusterMap[c].size = Len(ClusterMap[c].results)
          /\ ClusterMap[c].avg_score
                = TotalScore(ClusterMap[c].results) \div Len(ClusterMap[c].results)
    /\ \A k \in ResultIndex :
          Cardinality({ c \in 1..Len(ClusterMap) :
                          Results[k] \in Members_(ClusterMap[c].results) }) <= 1
    /\ \A c, e \in 1..Len(ClusterMap) : c # e => ClusterMap[c].label # ClusterMap[e].label

\* C24: whatever eps and min_samples a clustering call that returned was made
\* with, the results DBSCAN labels as noise are in no cluster of the outcome,
\* and the outcome groups the result list correctly.
C24_ClusterInvariants ==
    [][ (last_call' = "cluster_interference_issues" /\ returned' # <<>>
         /\ interference_results # <<>>) =>
            /\ GroupingSound'
            /\ \A eps \in ClusterEps, min_samples \in ClusterMinSamples :
                  (returned' = <<cluster_interference_issues(interference_results,
                                                             eps, min_samples)>>) =>
                      \A k \in ResultIndex :
                          (DBSCAN(interference_results, eps, min_samples)[k] = -1)
                              => ~InSomeCluster(Results[k])' ]_vars

\* C24 witness: a clustering call returned two clusters and left a result in
\* neither of them.
C24_Witness ==
    /\ Clustered /\ returned # <<>>
    /\ Len(ClusterMap) >= 2
    /\ \E k \in ResultIndex : ~InSomeCluster(Results[k])

NarrowerWidth(r) ==
    Min2(OrDefault(r.device1.channel_width), OrDefault(r.device2.channel_width))

\* C25: for every Conflict Result in the result list, the overlap width does
\* not exceed the narrower of the two channel widths (20 for a zero or absent
\* width), and the frequency factor computed from it lies between 0 and 100.
C25_FrequencyFactorIsPercentage ==
    \A k \in ResultIndex :
        /\ Results[k].frequency_overlap <= NarrowerWidth(Results[k])
        /\ FreqScore(Results[k].frequency_overlap, Results[k].device1, Results[k].device2) >= 0
        /\ FreqScore(Results[k].frequency_overlap, Results[k].device1, Results[k].device2)
              <= 100 * Milli

\* C25 witness: detection produced a result whose overlap is the whole of the
\* narrower channel (factor 100) between channels of different widths, and a
\* result with a device of zero width.
C25_Witness ==
    /\ Detected
    /\ \E k \in ResultIndex :
          /\ Results[k].device1.channel_width # Results[k].device2.channel_width
          /\ Results[k].frequency_overlap = NarrowerWidth(Results[k])
          /\ FreqScore(Results[k].frequency_overlap, Results[k].device1, Results[k].device2)
                = 100 * Milli
    /\ \E k \in ResultIndex :
          Results[k].device1.channel_width = <<0>> \/ Results[k].device2.channel_width = <<0>>

Labelled(label) ==
    Cardinality({ k \in ResultIndex : Results[k].recommendation[1] = LabelSentence(label) })
Unlabelled == Cardinality({ k \in ResultIndex : Results[k].recommendation = NoActionText })

\* C26: in a returned report the high, medium and low counts add up to the
\* total count; the high count is the number of results labelled High, the
\* medium count the number labelled Medium, and the low count the number
\* labelled Low plus the number carrying the no-action text.
C26_SeverityPartition ==
    (Reported /\ NotNone(returned)) =>
        /\ Report.summary.high_severity_issues + Report.summary.medium_severity_issues
              + Report.summary.low_severity_issues
           = Report.summary.total_interference_issues
        /\ Report.summary.high_severity_issues = Labelled("High")
        /\ Report.summary.medium_severity_issues = Labelled("Medium")
        /\ Report.summary.low_severity_issues = Labelled("Low") + Unlabelled

\* C26 witness: a returned report over results labelled High, results labelled
\* Low and results with the no-action text.
C26_Witness ==
    /\ Reported /\ NotNone(returned)
    /\ Labelled("High") > 0 /\ Labelled("Low") > 0
    /\ Unlabelled > 0

Touching(a, b) == a.freq_max = b.freq_min \/ b.freq_max = a.freq_min
ZeroResultFor(a, b) ==
    \E k \in ResultIndex :
        /\ Results[k].device1 = a /\ Results[k].device2 = b
        /\ Results[k].frequency_overlap = 0
        /\ Results[k].interference_score = 0
        /\ Results[k].recommendation = NoActionText

\* C27: after a detection call, every two registry devices with a frequency and
\* a range, on different sites, of which one range ends where the other begins,
\* have a Conflict Result with overlap width 0, score 0 and the no-action text.
C27_TouchingRangesQualify ==
    Detected =>
        \A i, j \in 1..Len(devices) :
            ( /\ i < j
              /\ HasFrequency(devices[i]) /\ HasFrequency(devices[j])
              /\ NotNone(devices[i].freq_min) /\ NotNone(devices[j].freq_min)
              /\ devices[i].site_id # devices[j].site_id
              /\ Touching(devices[i], devices[j]) )
            => ZeroResultFor(devices[i], devices[j])

OverlappingPair(i, j) ==
    /\ i < j
    /\ HasFrequency(devices[i]) /\ HasFrequency(devices[j])
    /\ NotNone(devices[i].freq_min) /\ NotNone(devices[j].freq_min)
    /\ RangesOverlap(devices[i], devices[j])

\* C28: no Conflict Result in the result list has two devices that both lack a
\* site id, and none has two devices with one site id for which there is no
\* site record.
C28_AbsentSitesShared ==
    \A k \in ResultIndex :
        /\ ~(Results[k].device1.site_id = <<>> /\ Results[k].device2.site_id = <<>>)
        /\ ~( /\ Results[k].device1.site_id # <<>>
              /\ Results[k].device1.site_id = Results[k].device2.site_id
              /\ SiteMissing(Results[k].device1) )

\* C28 witness: a detection call returned results on a registry that has two
\* devices without site id whose ranges overlap and two devices with the same
\* unrecorded site id whose ranges overlap.
C28_Witness ==
    /\ Detected /\ IsNone(raised) /\ Results # <<>>
    /\ \E i, j \in 1..Len(devices) :
          /\ OverlappingPair(i, j)
          /\ devices[i].site_id = <<>> /\ devices[j].site_id = <<>>
    /\ \E i, j \in 1..Len(devices) :
          /\ OverlappingPair(i, j)
          /\ devices[i].site_id # <<>> /\ devices[i].site_id = devices[j].site_id
          /\ SiteMissing(devices[i])

OnePerRecord == devices = BuildDevices(database, 1)

\* C29: a load_devices call on an unchanged database, made when the registry
\* holds one Device per device record in record order, leaves the registry so.
C29_OneDevicePerRecord ==
    [][ (last_call' = "load_devices" /\ database' = database /\ OnePerRecord)
            => OnePerRecord' ]_vars

\* detect_frequency_interference() followed, if it returns, by
\* generate_interference_report(output_file), on a detector with an empty
\* result list.
DetectThenGenerate(registry, output_file) ==
    LET detected == detect_frequency_interference(registry, <<>>)
    IN  IF detected.raised # <<>>
        THEN [results |-> detected.results, raised |-> detected.raised, returned |-> <<>>]
        ELSE generate_interference_report(registry, detected.results, output_file)

\* C30: a generate_interference_report call on a detector whose result list is
\* still empty ends as a detection call followed by a report call ends, with
\* the same report; a clustering call on such a detector returns the empty
\* grouping.
C30_ReportDetectsFirst ==
    [][ /\ (last_call' = "generate_interference_report" /\ interference_results = <<>>)
            => \E output_file \in {<<>>, <<"interference_report.json">>} :
                   /\ returned' = DetectThenGenerate(devices, output_file).returned
                   /\ raised' = DetectThenGenerate(devices, output_file).raised
                   /\ interference_results' = DetectThenGenerate(devices, output_file).results
        /\ (last_call' = "cluster_interference_issues" /\ interference_results = <<>>)
            => (raised' = <<>> /\ returned' = <<EmptyDict>>) ]_vars

\* C30 witness: on a detector as constructed, on which only report calls ran,
\* a report call returned a report with issues.
C30_Witness ==
    /\ Reported /\ returned # <<>>
    /\ devices = BuildDevices(database, 1)
    /\ Report.summary.total_interference_issues >= 2
    /\ Report.all_issues # <<>>

====
